---- MODULE Spec2Model ----
(***************************************************************************)
(* Model of scripts/tests/test-organization-flows.py: the sequential      *)
(* browser-driven flow checker test_organization_flows().                  *)
(*                                                                         *)
(* The Python control flow is modelled statement group by statement group: *)
(* pc names the statement group that is executing.  Every Playwright call  *)
(* can raise (navigation timeout, closed target, ...); a raise inside the  *)
(* try block transfers control to the except clause, a raise before the    *)
(* try block leaves the function through the with statement.               *)
(* page.url is modelled as the sequence of its path segments and the       *)
(* Python test  'word' in page.url  as membership of a segment.            *)
(***************************************************************************)
EXTENDS Integers, Sequences, FiniteSets, TLC

(* ---------------------------------------------------------------------- *)
(* Bounds                                                                  *)
(* ---------------------------------------------------------------------- *)
\* number of 'pageerror' events the browser delivers during one run
MaxErrors == 2

(* ---------------------------------------------------------------------- *)
(* Data of the script                                                      *)
(* ---------------------------------------------------------------------- *)
protected_routes ==
    << <<"dashboard", "analytics">>,
       <<"dashboard", "conversations">>,
       <<"dashboard", "settings">> >>

test_pages == << <<>>, <<"login">>, <<"dashboard">>, <<"onboarding">> >>

N_home      == "Home page loads successfully"
N_login     == "Login page has required form elements"
N_dashboard == "Dashboard redirects unauthenticated users"
N_onboard   == "Onboarding page exists with organization creation"
N_authme    == "API /auth/me endpoint responds"
N_orgs      == "API /organizations endpoint responds"
N_team      == "Team page exists in routing"
N_structure == "Dashboard has proper structure"
N_middle    == "Middleware protects all dashboard routes"
N_jserrors  == "No JavaScript errors on main pages"
N_build     == "Production build artifacts exist"

\* the names passed to log_test, in the order the calls appear in the file
DeclaredOrder ==
    << N_home, N_login, N_dashboard, N_onboard, N_authme, N_orgs,
       N_team, N_structure, N_middle, N_jserrors, N_build >>

\* the numbered "Test k" section each log_test call belongs to
StepOf ==
    [n \in {DeclaredOrder[i] : i \in 1..Len(DeclaredOrder)} |->
        CASE n = N_home      -> 1
          [] n = N_login     -> 2
          [] n = N_dashboard -> 3
          [] n = N_onboard   -> 4
          [] n = N_authme    -> 5
          [] n = N_orgs      -> 5
          [] n = N_team      -> 6
          [] n = N_structure -> 7
          [] n = N_middle    -> 8
          [] n = N_jserrors  -> 9
          [] n = N_build     -> 10]

(* ---------------------------------------------------------------------- *)
(* What the environment (browser, application, file system) can show       *)
(* ---------------------------------------------------------------------- *)
Titles   == {"", "Omniops"}
Urls     == { <<>>, <<"login">>, <<"auth">>, <<"onboarding">>, <<"dashboard">>,
              <<"error">> }
Statuses == {200, 401, 404, 500}
ErrorMsgs == {"TypeError"}

Contains(url, word) == \E i \in 1..Len(url) : url[i] = word

RECURSIVE PathStr(_)
PathStr(url) ==
    IF url = <<>> THEN "" ELSE "/" \o Head(url) \o PathStr(Tail(url))

UrlStr(url) ==
    IF url = <<>> THEN "http://localhost:3000/"
    ELSE "http://localhost:3000" \o PathStr(url)

PyBool(b) == IF b THEN "True" ELSE "False"

(* ---------------------------------------------------------------------- *)
(* State                                                                   *)
(* ---------------------------------------------------------------------- *)
VARIABLES
    pc,            \* statement group being executed
    playwright,    \* the sync_playwright() context: "none", "running", "stopped"
    browser,       \* "none", "open", "closed"
    closeCount,    \* number of browser.close() calls made
    handlers,      \* listeners registered with page.on('pageerror', ...)
    results,       \* the results dict
    transcript,    \* names printed by log_test ("PASS: .."/"FAIL: .."), in order
    lastLog,       \* arguments of the most recent log_test call
    js_errors,     \* the list js_errors of Test 9
    all_protected, \* the flag all_protected of Test 8
    route,         \* index into protected_routes of the for loop of Test 8
    test_page,     \* index into test_pages of the for loop of Test 9
    routeObs,      \* is_protected as observed on each route navigated in Test 8
    delivered,     \* for each 'pageerror' event delivered: the window it arrived in
    browserErrorLines, \* number of "[Browser Error] .." lines printed
    raised,        \* statement group in which an exception was raised, or "none"
    caught,        \* TRUE once the except clause has printed the error
    summary,       \* the TEST SUMMARY block printed by the finally clause
    exitStatus     \* exit status of the process, -1 while it runs

vars == << pc, playwright, browser, closeCount, handlers, results, transcript,
           lastLog, js_errors, all_protected, route, test_page, routeObs,
           delivered, browserErrorLines, raised, caught, summary, exitStatus >>

NoLog     == [name |-> "", passed |-> FALSE, details |-> ""]
NoSummary == [printed |-> FALSE, total |-> 0, passed |-> 0, failed |-> 0,
              pass_rate |-> 0]

Init ==
    /\ pc = "launch"
    /\ playwright = "running"
    /\ browser = "none"
    /\ closeCount = 0
    /\ handlers = <<>>
    /\ results = [passed |-> <<>>, failed |-> <<>>, total |-> 0]
    /\ transcript = <<>>
    /\ lastLog = NoLog
    /\ js_errors = <<>>
    /\ all_protected = TRUE
    /\ route = 0
    /\ test_page = 0
    /\ routeObs = <<>>
    /\ delivered = <<>>
    /\ browserErrorLines = 0
    /\ raised = "none"
    /\ caught = FALSE
    /\ summary = NoSummary
    /\ exitStatus = -1

(* ---------------------------------------------------------------------- *)
(* log_test and the summary arithmetic                                     *)
(* ---------------------------------------------------------------------- *)
\* log_test with the counter bumped only on the passing branch
log_test_passOnly(r, name, passed) ==
    IF passed
    THEN [r EXCEPT !.total = @ + 1, !.passed = Append(@, name)]
    ELSE [r EXCEPT !.failed = Append(@, name)]

log_test(r, name, passed) ==
    IF passed
    THEN [r EXCEPT !.total = @ + 1, !.passed = Append(@, name)]
    ELSE [r EXCEPT !.total = @ + 1, !.failed = Append(@, name)]

\* pass_rate computed from the failed list
pass_rate_ofFailed(r) ==
    IF r.total > 0
    THEN (2000 * Len(r.failed) + r.total) \div (2 * r.total)
    ELSE 0

\* pass_rate as printed with format .1f, in tenths of a percent.  The value
\* len(passed) / total * 100 is rounded to the nearest tenth; a tie needs
\* 2000 * len(passed) / total to be an odd integer, hence total >= 16, which
\* eleven log_test calls never reach.
pass_rate(r) ==
    IF r.total > 0
    THEN (2000 * Len(r.passed) + r.total) \div (2 * r.total)
    ELSE 0

\* exit code that tolerates one failed check
exit_code_offByOne(r) == IF Len(r.failed) > 1 THEN 1 ELSE 0

\* the argument of sys.exit in the finally clause
exit_code(r) == IF Len(r.failed) > 0 THEN 1 ELSE 0

LogTest(name, passed, details) ==
    /\ results' = log_test(results, name, passed)
    /\ transcript' = Append(transcript, name)
    /\ lastLog' = [name |-> name, passed |-> passed, details |-> details]

(* ---------------------------------------------------------------------- *)
(* The predicates of the checks                                            *)
(* ---------------------------------------------------------------------- *)
home_loaded(title, url) == title # "" /\ ~Contains(url, "error")

login_page_valid(has_email_input, has_password_input, has_submit_button) ==
    has_email_input /\ has_password_input /\ has_submit_button

redirected_to_login(url, emailInput) ==
    Contains(url, "login") \/ Contains(url, "auth") \/ emailInput

onboarding_exists(has_org_name_input, has_create_button, orgInContent) ==
    has_org_name_input \/ has_create_button \/ orgInContent

api_works(status) == status \in {200, 401}

team_page_accessible(teamHeading, url) ==
    teamHeading \/ Contains(url, "login") \/ Contains(url, "onboarding")

dashboard_structured(has_navigation, has_content, url) ==
    has_navigation \/ has_content \/ Contains(url, "login")

is_protected(url, emailInput) ==
    Contains(url, "login") \/ Contains(url, "onboarding") \/ emailInput

no_critical_js_errors(errs) == Len(errs) = 0

build_complete(next_dir_exists, build_id_exists) ==
    next_dir_exists /\ build_id_exists

(* ---------------------------------------------------------------------- *)
(* Control flow helpers                                                    *)
(* ---------------------------------------------------------------------- *)
sessionVars == << playwright, browser, closeCount, handlers >>
logVars     == << results, transcript, lastLog >>
loopVars    == << js_errors, all_protected, route, test_page, routeObs >>
eventVars   == << delivered, browserErrorLines >>
endVars     == << caught, summary, exitStatus >>

\* an exception raised inside the try block: control goes to the except clause
RaiseInTry ==
    /\ raised' = pc
    /\ pc' = "except"
    /\ UNCHANGED << sessionVars, logVars, loopVars, eventVars, endVars >>

\* an exception raised before the try block: nothing in the function catches it
RaiseBeforeTry ==
    /\ raised' = pc
    /\ pc' = "uncaught"
    /\ UNCHANGED << sessionVars, logVars, loopVars, eventVars, endVars >>

\* a Playwright call that returns and changes nothing the script keeps
Proceed(next) ==
    /\ pc' = next
    /\ UNCHANGED << sessionVars, logVars, loopVars, eventVars, endVars, raised >>

\* a group of statements that ends in a log_test call
Record(next, name, passed, details) ==
    /\ LogTest(name, passed, details)
    /\ pc' = next
    /\ UNCHANGED << sessionVars, loopVars, eventVars, endVars, raised >>

(* ---------------------------------------------------------------------- *)
(* Session set-up (before the try block)                                   *)
(* ---------------------------------------------------------------------- *)
Launch ==
    /\ pc = "launch"
    /\ \/ /\ browser' = "open"
          /\ pc' = "new_context"
          /\ UNCHANGED << playwright, closeCount, handlers, logVars, loopVars,
                          eventVars, endVars, raised >>
       \/ RaiseBeforeTry

NewContext ==
    /\ pc = "new_context"
    /\ \/ Proceed("new_page")
       \/ RaiseBeforeTry

NewPage ==
    /\ pc = "new_page"
    /\ \/ Proceed("page_on")
       \/ RaiseBeforeTry

\* page.on('console', ...) and page.on('pageerror', lambda err: print(...))
RegisterLogging ==
    /\ pc = "page_on"
    /\ handlers' = Append(handlers, "print")
    /\ pc' = "t1_goto"
    /\ UNCHANGED << playwright, browser, closeCount, logVars, loopVars,
                    eventVars, endVars, raised >>

(* ---------------------------------------------------------------------- *)
(* Tests 1 to 7                                                            *)
(* ---------------------------------------------------------------------- *)
Test1Goto ==
    /\ pc = "t1_goto"
    /\ \/ Proceed("t1_check")
       \/ RaiseInTry

Test1Check ==
    /\ pc = "t1_check"
    /\ \/ \E title \in Titles, url \in Urls :
            Record("t2_goto", N_home, home_loaded(title, url),
                   "Title: " \o title)
       \/ RaiseInTry

Test2Goto ==
    /\ pc = "t2_goto"
    /\ \/ Proceed("t2_check")
       \/ RaiseInTry

Test2Check ==
    /\ pc = "t2_check"
    /\ \/ \E has_email_input \in BOOLEAN, has_password_input \in BOOLEAN,
             submitButton \in BOOLEAN, signInButton \in BOOLEAN :
            LET has_submit_button == submitButton \/ signInButton IN
            Record("t3_goto", N_login,
                   login_page_valid(has_email_input, has_password_input,
                                    has_submit_button),
                   "Email: " \o PyBool(has_email_input)
                     \o ", Password: " \o PyBool(has_password_input)
                     \o ", Submit: " \o PyBool(has_submit_button))
       \/ RaiseInTry

Test3Goto ==
    /\ pc = "t3_goto"
    /\ \/ Proceed("t3_check")
       \/ RaiseInTry

Test3Check ==
    /\ pc = "t3_check"
    /\ \/ \E url \in Urls, emailInput \in BOOLEAN :
            Record("t4_goto", N_dashboard, redirected_to_login(url, emailInput),
                   "Current URL: " \o UrlStr(url))
       \/ RaiseInTry

Test4Goto ==
    /\ pc = "t4_goto"
    /\ \/ Proceed("t4_check")
       \/ RaiseInTry

Test4Check ==
    /\ pc = "t4_check"
    /\ \/ \E nameInput \in BOOLEAN, placeholderInput \in BOOLEAN,
             has_create_button \in BOOLEAN, orgInContent \in BOOLEAN :
            LET has_org_name_input == nameInput \/ placeholderInput IN
            Record("t5_authme", N_onboard,
                   onboarding_exists(has_org_name_input, has_create_button,
                                     orgInContent),
                   "Has org input: " \o PyBool(has_org_name_input)
                     \o ", Has create button: " \o PyBool(has_create_button))
       \/ RaiseInTry

Test5AuthMe ==
    /\ pc = "t5_authme"
    /\ \/ \E status \in Statuses :
            Record("t5_orgs", N_authme, api_works(status),
                   "Status: " \o ToString(status))
       \/ RaiseInTry

\* the second API probe logged under the name of the first
Test5Orgs_sameName ==
    /\ pc = "t5_orgs"
    /\ \/ \E status \in Statuses :
            Record("t6_goto", N_authme, api_works(status),
                   "Status: " \o ToString(status))
       \/ RaiseInTry

Test5Orgs ==
    /\ pc = "t5_orgs"
    /\ \/ \E status \in Statuses :
            Record("t6_goto", N_orgs, api_works(status),
                   "Status: " \o ToString(status))
       \/ RaiseInTry

Test6Goto ==
    /\ pc = "t6_goto"
    /\ \/ Proceed("t6_check")
       \/ RaiseInTry

Test6Check ==
    /\ pc = "t6_check"
    /\ \/ \E teamHeading \in BOOLEAN, url \in Urls :
            Record("t7_goto", N_team, team_page_accessible(teamHeading, url),
                   "Current URL: " \o UrlStr(url))
       \/ RaiseInTry

Test7Goto ==
    /\ pc = "t7_goto"
    /\ \/ Proceed("t7_check")
       \/ RaiseInTry

Test7Check ==
    /\ pc = "t7_check"
    /\ \/ \E navEl \in BOOLEAN, asideEl \in BOOLEAN, roleNav \in BOOLEAN,
             mainEl \in BOOLEAN, roleMain \in BOOLEAN, url \in Urls :
            LET has_navigation == navEl \/ asideEl \/ roleNav
                has_content    == mainEl \/ roleMain
            IN  Record("t8_init", N_structure,
                       dashboard_structured(has_navigation, has_content, url),
                       "Has nav: " \o PyBool(has_navigation)
                         \o ", Has main: " \o PyBool(has_content))
       \/ RaiseInTry

(* ---------------------------------------------------------------------- *)
(* Test 8: middleware route protection                                     *)
(* ---------------------------------------------------------------------- *)
Test8Init ==
    /\ pc = "t8_init"
    /\ all_protected' = TRUE
    /\ IF Len(protected_routes) > 0
       THEN route' = 1 /\ pc' = "t8_goto"
       ELSE route' = route /\ pc' = "t8_log"
    /\ UNCHANGED << sessionVars, logVars, js_errors, test_page, routeObs,
                    eventVars, endVars, raised >>

Test8Goto ==
    /\ pc = "t8_goto"
    /\ \/ Proceed("t8_check")
       \/ RaiseInTry

Test8Check ==
    /\ pc = "t8_check"
    /\ \/ \E url \in Urls, emailInput \in BOOLEAN :
            LET protected == is_protected(url, emailInput) IN
            /\ routeObs' = Append(routeObs, protected)
            /\ IF ~protected
               THEN /\ all_protected' = FALSE
                    /\ route' = route
                    /\ pc' = "t8_log"
               ELSE /\ all_protected' = all_protected
                    /\ IF route < Len(protected_routes)
                       THEN route' = route + 1 /\ pc' = "t8_goto"
                       ELSE route' = route /\ pc' = "t8_log"
            /\ UNCHANGED << sessionVars, logVars, js_errors, test_page,
                            eventVars, endVars, raised >>
       \/ RaiseInTry

Test8Log ==
    /\ pc = "t8_log"
    /\ Record("t9_page_on", N_middle, all_protected,
              "Tested " \o ToString(Len(protected_routes)) \o " routes")

(* ---------------------------------------------------------------------- *)
(* Test 9: JavaScript error detection                                      *)
(* ---------------------------------------------------------------------- *)
\* js_errors = [] and page.on('pageerror', handle_error)
Test9Register ==
    /\ pc = "t9_page_on"
    /\ js_errors' = <<>>
    /\ handlers' = Append(handlers, "handle_error")
    /\ IF Len(test_pages) > 0
       THEN test_page' = 1 /\ pc' = "t9_goto"
       ELSE test_page' = test_page /\ pc' = "t9_log"
    /\ UNCHANGED << playwright, browser, closeCount, logVars, all_protected,
                    route, routeObs, eventVars, endVars, raised >>

Test9Goto ==
    /\ pc = "t9_goto"
    /\ \/ Proceed("t9_wait")
       \/ RaiseInTry

Test9Wait ==
    /\ pc = "t9_wait"
    /\ \/ /\ IF test_page < Len(test_pages)
             THEN test_page' = test_page + 1 /\ pc' = "t9_goto"
             ELSE test_page' = test_page /\ pc' = "t9_log"
          /\ UNCHANGED << sessionVars, logVars, js_errors, all_protected,
                          route, routeObs, eventVars, endVars, raised >>
       \/ RaiseInTry

Test9Log ==
    /\ pc = "t9_log"
    /\ Record("t10", N_jserrors, no_critical_js_errors(js_errors),
              "Errors found: " \o ToString(Len(js_errors)))

(* ---------------------------------------------------------------------- *)
(* Test 10: build artifacts (os.path.exists does not raise)                *)
(* ---------------------------------------------------------------------- *)
Test10 ==
    /\ pc = "t10"
    /\ \E next_dir_exists \in BOOLEAN, build_id_exists \in BOOLEAN :
         /\ build_id_exists => next_dir_exists
         /\ Record("finally", N_build,
                   build_complete(next_dir_exists, build_id_exists),
                   ".next directory: " \o PyBool(next_dir_exists))

(* ---------------------------------------------------------------------- *)
(* 'pageerror' events                                                      *)
(* ---------------------------------------------------------------------- *)
\* The sync API dispatches events to the listeners only while the script is
\* blocked inside a Playwright call on the page.
PumpLabels ==
    { "t1_goto", "t1_check", "t2_goto", "t2_check", "t3_goto", "t3_check",
      "t4_goto", "t4_check", "t5_authme", "t5_orgs", "t6_goto", "t6_check",
      "t7_goto", "t7_check", "t8_goto", "t8_check", "t9_goto", "t9_wait" }

TestOf(label) ==
    CASE label \in {"t1_goto", "t1_check"}   -> 1
      [] label \in {"t2_goto", "t2_check"}   -> 2
      [] label \in {"t3_goto", "t3_check"}   -> 3
      [] label \in {"t4_goto", "t4_check"}   -> 4
      [] label \in {"t5_authme", "t5_orgs"}  -> 5
      [] label \in {"t6_goto", "t6_check"}   -> 6
      [] label \in {"t7_goto", "t7_check"}   -> 7
      [] label \in {"t8_init", "t8_goto", "t8_check", "t8_log"} -> 8
      [] label \in {"t9_page_on", "t9_goto", "t9_wait", "t9_log"} -> 9
      [] label = "t10"                       -> 10
      [] OTHER                               -> 0

\* the part of the run a statement group belongs to: the sweep of Test 9
\* (from the registration of handle_error to its log_test call) or not
WindowOf(label) == IF TestOf(label) = 9 THEN "sweep" ELSE "outside"

\* a dispatch that reaches only the listener registered first
RECURSIVE handle_error_firstOnly(_, _, _)
handle_error_firstOnly(hs, errs, e) ==
    IF hs = <<>> THEN errs
    ELSE IF Head(hs) = "handle_error" THEN Append(errs, e) ELSE errs

\* the list js_errors after the listeners hs, called in registration order,
\* have handled the error e
RECURSIVE handle_error(_, _, _)
handle_error(hs, errs, e) ==
    IF hs = <<>> THEN errs
    ELSE handle_error(Tail(hs),
                      IF Head(hs) = "handle_error" THEN Append(errs, e) ELSE errs,
                      e)

\* the number of listeners that print "[Browser Error] .."
RECURSIVE PrintingListeners(_)
PrintingListeners(hs) ==
    IF hs = <<>> THEN 0
    ELSE (IF Head(hs) = "print" THEN 1 ELSE 0) + PrintingListeners(Tail(hs))

PageError ==
    /\ pc \in PumpLabels
    /\ Len(delivered) < MaxErrors
    /\ \E e \in ErrorMsgs :
         js_errors' = handle_error(handlers, js_errors, e)
    /\ browserErrorLines' = browserErrorLines + PrintingListeners(handlers)
    /\ delivered' = Append(delivered, WindowOf(pc))
    /\ UNCHANGED << pc, sessionVars, logVars, all_protected, route, test_page,
                    routeObs, endVars, raised >>

(* ---------------------------------------------------------------------- *)
(* except, finally, and leaving the with statement                         *)
(* ---------------------------------------------------------------------- *)
Except ==
    /\ pc = "except"
    /\ caught' = TRUE
    /\ pc' = "finally"
    /\ UNCHANGED << sessionVars, logVars, loopVars, eventVars, summary,
                    exitStatus, raised >>

\* browser.close(), the summary, and sys.exit; SystemExit then leaves the
\* with statement, which stops Playwright
Finally ==
    /\ pc = "finally"
    /\ browser' = "closed"
    /\ closeCount' = closeCount + 1
    /\ summary' = [printed |-> TRUE,
                   total |-> results.total,
                   passed |-> Len(results.passed),
                   failed |-> Len(results.failed),
                   pass_rate |-> pass_rate(results)]
    /\ exitStatus' = exit_code(results)
    /\ playwright' = "stopped"
    /\ pc' = "exited"
    /\ UNCHANGED << handlers, logVars, loopVars, eventVars, caught, raised >>

\* an exception raised before the try block leaves the with statement, which
\* stops Playwright (ending a launched browser without browser.close()), and
\* the interpreter prints the traceback and exits with status 1
Uncaught ==
    /\ pc = "uncaught"
    /\ playwright' = "stopped"
    /\ browser' = IF browser = "open" THEN "terminated" ELSE browser
    /\ exitStatus' = 1
    /\ pc' = "exited"
    /\ UNCHANGED << closeCount, handlers, logVars, loopVars, eventVars,
                    caught, summary, raised >>

Next ==
    \/ Launch \/ NewContext \/ NewPage \/ RegisterLogging
    \/ Test1Goto \/ Test1Check
    \/ Test2Goto \/ Test2Check
    \/ Test3Goto \/ Test3Check
    \/ Test4Goto \/ Test4Check
    \/ Test5AuthMe \/ Test5Orgs
    \/ Test6Goto \/ Test6Check
    \/ Test7Goto \/ Test7Check
    \/ Test8Init \/ Test8Goto \/ Test8Check \/ Test8Log
    \/ Test9Register \/ Test9Goto \/ Test9Wait \/ Test9Log
    \/ Test10
    \/ PageError
    \/ Except \/ Finally \/ Uncaught

Spec == Init /\ [][Next]_vars

(* ---------------------------------------------------------------------- *)
(* Properties                                                              *)
(* ---------------------------------------------------------------------- *)
Names == {DeclaredOrder[i] : i \in 1..Len(DeclaredOrder)}

Elems(sq) == {sq[i] : i \in 1..Len(sq)}

Recorded(name) == name \in Elems(transcript)

\* position of a name in DeclaredOrder
DeclIndex ==
    [name \in Names |-> CHOOSE k \in 1..Len(DeclaredOrder) : DeclaredOrder[k] = name]

InDeclaredOrder(sq) ==
    /\ Elems(sq) \subseteq Names
    /\ \A i, j \in 1..Len(sq) : i < j => DeclIndex[sq[i]] < DeclIndex[sq[j]]

SetupLabels == {"launch", "new_context", "new_page"}

Exited == pc = "exited"

\* C1: if evaluating Check Step k raises, a Check of step k is recorded as
\* failed with non-empty details and every Check of the later steps is still
\* recorded.
CheckStepIsolation ==
    (Exited /\ TestOf(raised) \in 1..10) =>
        /\ \E n \in Elems(results.failed) : StepOf[n] = TestOf(raised)
        /\ \A n \in Names : StepOf[n] > TestOf(raised) => Recorded(n)

\* C2 (as stated): on every path by which the process terminates, the exit
\* status is 0 exactly when results['failed'] is empty, and 1 otherwise.
ExitZeroIffNoFailed ==
    Exited => /\ exitStatus \in {0, 1}
              /\ exitStatus = 0 <=> results.failed = <<>>

\* C2 (amended): on every path that enters the try block the exit status is 0
\* exactly when results['failed'] is empty and 1 otherwise; when launching the
\* browser, creating the context or creating the page raises, the exit status
\* is 1 although results['failed'] is empty.
ExitFollowsFailedOnceInTry ==
    Exited =>
        IF raised \in SetupLabels
        THEN exitStatus = 1 /\ results.failed = <<>>
        ELSE /\ exitStatus \in {0, 1}
             /\ exitStatus = 0 <=> results.failed = <<>>

ErrorInTryExitsZero ==
    /\ Exited
    /\ caught
    /\ results.total > 0
    /\ results.failed = <<>>
    /\ exitStatus = 0

\* C3: when the top-level except clause has caught an error, the summary of
\* the partial Result Set is printed and the exit status is non-zero, whether
\* or not a Check had been recorded as failed.
CaughtErrorExitsNonZero ==
    (Exited /\ caught) =>
        /\ summary.printed
        /\ summary.total = results.total
        /\ exitStatus # 0

\* C4: once the browser has been launched, browser.close() is called exactly
\* once before the process exits, on every exit path, and nothing navigates
\* or logs after the close.
BrowserClosedExactlyOnce ==
    /\ closeCount > 0 => Exited
    /\ (Exited /\ browser # "none") => closeCount = 1

\* C5: total == len(passed) + len(failed) after every log_test call and in the
\* printed summary; a log_test call adds 1 to total and appends the name to
\* exactly one of the two lists; no step removes an entry.
TotalIsSum ==
    /\ results.total = Len(results.passed) + Len(results.failed)
    /\ summary.printed =>
          /\ summary.total = summary.passed + summary.failed
          /\ summary.total = results.total
          /\ summary.passed = Len(results.passed)

LogTestStep ==
    results' # results =>
        /\ results'.total = results.total + 1
        /\ Len(transcript') = Len(transcript) + 1
        /\ LET name == transcript'[Len(transcript')] IN
           \/ /\ results'.passed = Append(results.passed, name)
              /\ results'.failed = results.failed
           \/ /\ results'.failed = Append(results.failed, name)
              /\ results'.passed = results.passed

ResultsAccounting == []TotalIsSum /\ [][LogTestStep]_vars

MixedRunSummarised ==
    /\ Exited
    /\ summary.printed
    /\ results.total = 11
    /\ results.passed # <<>>
    /\ results.failed # <<>>

\* C6: the names recorded by log_test appear in the declared order of the
\* checks, each at most once, whether earlier checks passed or failed.
TranscriptInDeclaredOrder ==
    /\ InDeclaredOrder(transcript)
    /\ InDeclaredOrder(results.passed)
    /\ InDeclaredOrder(results.failed)
    /\ Elems(results.passed) \cup Elems(results.failed) = Elems(transcript)
    /\ Len(transcript) = results.total

AllRecordedAfterEarlyFailure ==
    /\ Len(transcript) = 11
    /\ N_home \in Elems(results.failed)
    /\ N_authme \in Elems(results.failed)
    /\ N_build \in Elems(results.passed)

\* C7: if p.chromium.launch raises, no Check is recorded, the summary is still
\* printed with total 0 and pass rate 0.0%, the exit status is 1 and the
\* release path is invoked.
LaunchFailureStillSummarised ==
    (Exited /\ raised = "launch") =>
        /\ results.total = 0
        /\ summary.printed
        /\ summary.total = 0
        /\ summary.pass_rate = 0
        /\ exitStatus = 1
        /\ playwright = "stopped"

AllPassed == Exited /\ raised = "none" /\ results.failed = <<>>

\* C8 (as stated): when every Check Step passes and no error is raised, the
\* summary reports 10 passed, 0 failed, total 10, pass rate 100.0%, and the
\* exit status is 0.
AllPassReportsTen ==
    AllPassed =>
        /\ summary.printed
        /\ summary.passed = 10
        /\ summary.failed = 0
        /\ summary.total = 10
        /\ summary.pass_rate = 1000
        /\ exitStatus = 0

\* C8 (amended): when every Check Step passes and no error is raised, the
\* summary reports 11 passed (Test 5 records two Checks), 0 failed, total 11,
\* pass rate 100.0%, and the exit status is 0.
AllPassReportsEleven ==
    AllPassed =>
        /\ summary.printed
        /\ summary.passed = 11
        /\ summary.failed = 0
        /\ summary.total = 11
        /\ summary.pass_rate = 1000
        /\ exitStatus = 0

AllPassedRun == AllPassed /\ summary.printed /\ Len(transcript) = 11

\* the verdict of Test 8 at its log_test call: passed exactly when all three
\* routes were navigated and seen protected; the loop stops at the first
\* unprotected route; details are "Tested 3 routes" either way
SweepVerdict ==
    /\ \A i \in 1..Len(routeObs) : ~routeObs[i] => i = Len(routeObs)
    /\ Len(routeObs) <= Len(protected_routes)
    /\ lastLog.name = N_middle =>
          /\ lastLog.details = "Tested 3 routes"
          /\ lastLog.passed <=>
                /\ Len(routeObs) = Len(protected_routes)
                /\ \A i \in 1..Len(routeObs) : routeObs[i]
    /\ Recorded(N_middle) =>
          (N_middle \in Elems(results.passed)) <=>
                /\ Len(routeObs) = Len(protected_routes)
                /\ \A i \in 1..Len(routeObs) : routeObs[i]

\* C9: Test 8 records one Check, passed exactly when all three routes are
\* protected, stopping at the first unprotected route, with details
\* "Tested 3 routes"; and when it fails without raising, Checks 9 and 10
\* still execute and the exit status is 1.
SweepFailureContinues ==
    /\ SweepVerdict
    /\ (Exited /\ N_middle \in Elems(results.failed)) =>
          /\ Recorded(N_jserrors)
          /\ Recorded(N_build)
          /\ exitStatus = 1

\* C10: the Check of Test 9 passes exactly when no 'pageerror' event was
\* delivered between the registration of handle_error and the end of the four
\* sweep navigations; an event delivered earlier is only printed and changes
\* neither js_errors nor any recorded Check.
SweepErrors == {i \in 1..Len(delivered) : delivered[i] = "sweep"}

JsErrorVerdict ==
    /\ pc = "t9_log" => Len(js_errors) = Cardinality(SweepErrors)
    /\ Recorded(N_jserrors) =>
          (N_jserrors \in Elems(results.passed)) <=> SweepErrors = {}

EarlyErrorOnlyPrinted ==
    (Len(delivered') > Len(delivered)
        /\ delivered'[Len(delivered')] = "outside") =>
            /\ browserErrorLines' = browserErrorLines + 1
            /\ UNCHANGED << pc, js_errors, results, transcript, lastLog,
                            handlers, all_protected, routeObs >>

PageErrorsCountOnlyInSweep == []JsErrorVerdict /\ [][EarlyErrorOnlyPrinted]_vars

PassDespiteEarlyError ==
    /\ N_jserrors \in Elems(results.passed)
    /\ Len(delivered) > 0
    /\ \A i \in 1..Len(delivered) : delivered[i] = "outside"

====
